---- MODULE Spec2Model ----
(***************************************************************************)
(* nrbt: the command segmenter (parse_cmd_line) and the sequencer          *)
(* (run_all_cmd / run_cmd / handle_cmd_error) of src/main.rs.              *)
(*                                                                         *)
(* Sequences are 1-based here: the source's segment index i (0-based) is   *)
(* index i + 1 of cmds, and the source's test `i > 0` reads `i > 1`.       *)
(***************************************************************************)
EXTENDS Integers, Sequences, FiniteSets, TLC

VARIABLES
    cmd_line,    \* main: the expression, matches.free[0]
    cmds,        \* run_all_cmd: the Vec<Cmd> it was given
    i,           \* run_all_cmd: the index of the for loop
    cmd_return,  \* run_all_cmd: the CmdReturn being built
    child,       \* run_all_cmd: Option<Child>, the segment whose process it is
    run,         \* the Run value of the last run_cmd call
    pc,          \* "main", "loop", "returned" (Ok), "fatal" (Err), "panic",
                 \* "exit" (main has returned)
    error,       \* the io::Error kind or the panic message once pc says so
    calls,       \* every Command::output / Command::spawn made so far, in
                 \* order, with what the operating system returned
    written,     \* main: what was written to the output file, if anything
    printed,     \* main: what was printed to standard output, if anything
    exit_status  \* the exit status of the process once main has returned

main_vars == <<written, printed, exit_status>>

vars == <<cmd_line, cmds, i, cmd_return, child, run, pc, error, calls,
          written, printed, exit_status>>

(***************************************************************************)
(* Bounds of the model.                                                    *)
(***************************************************************************)
MaxLen == 5

\* The characters an expression is drawn from: a program-name character, a
\* blank, the characters of the three operator tokens, and "2", one of the
\* other characters the bracket expression of the segmenter's regex excludes.
Alphabet == {"a", " ", "&", ";", "|", "2"}

Expressions == UNION {[1..n -> Alphabet] : n \in 0..MaxLen}

\* Longer expressions, written token by token: the same characters, with &
\* only as the && token.
MaxTokens == 5

Tokens == {<<"a">>, <<" ">>, <<"&", "&">>, <<";">>, <<"|">>, <<"2">>}

RECURSIVE Flatten(_)
Flatten(ts) == IF ts = <<>> THEN <<>> ELSE Head(ts) \o Flatten(Tail(ts))

TokenExpressions ==
    {Flatten(ts) : ts \in UNION {[1..n -> Tokens] : n \in 0..MaxTokens}}

(***************************************************************************)
(* Option<T>: None is the empty sequence, Some(x) the one-element one.     *)
(***************************************************************************)
None == <<>>

Some(x) == <<x>>

(***************************************************************************)
(* parse_cmd_line: the regex \s*([^(&{2}|;|\|)]+)(&{2}|;|\|)? applied by   *)
(* captures_iter (leftmost-first, non-overlapping matches).                *)
(***************************************************************************)
\* \s
IsSpace(c) == c = " "

\* [^(&{2}|;|\|)] : a bracket expression, so it excludes the characters
\* ( & { 2 } | ; ) and admits everything else, blanks included.
InClass(c) == c \notin {"(", "&", "{", "2", "}", "|", ";", ")"}

\* Last position of the maximal run of class characters starting at p
\* (p - 1 when s[p] is not a class character).
RECURSIVE RunEnd(_, _)
RunEnd(s, p) ==
    IF p <= Len(s) /\ InClass(s[p]) THEN RunEnd(s, p + 1) ELSE p - 1

\* Number of blanks at the head of s[p..e].
RECURSIVE LeadingSpaces(_, _, _)
LeadingSpaces(s, p, e) ==
    IF p <= e /\ IsSpace(s[p]) THEN 1 + LeadingSpaces(s, p + 1, e) ELSE 0

\* Where group 1 starts in a match that starts at p and whose class run ends
\* at e: the greedy \s* takes every leading blank, but gives the last one
\* back when the whole run is blank, because group 1 needs one character.
Group1Start(s, p, e) ==
    LET ws == LeadingSpaces(s, p, e)
    IN  IF ws = e - p + 1 THEN e ELSE p + ws

\* (&{2}|;|\|)? tried right after the class run.
Separator(s, e) ==
    IF e + 2 <= Len(s) /\ s[e + 1] = "&" /\ s[e + 2] = "&" THEN "&&"
    ELSE IF e + 1 <= Len(s) /\ s[e + 1] = ";" THEN ";"
    ELSE IF e + 1 <= Len(s) /\ s[e + 1] = "|" THEN "|"
    ELSE ""

\* CmdKind of a separator (lines 246-267).
CmdKind(sep) ==
    IF sep = "&&" THEN "And"
    ELSE IF sep = "|" THEN "Pipe"
    ELSE IF sep = ";" THEN "SemiCol"
    ELSE "Single"

\* The matches from position p on, each mapped to a Cmd by the filter_map.
RECURSIVE CapturesFrom(_, _)
CapturesFrom(s, p) ==
    IF p > Len(s) THEN <<>>
    ELSE IF ~InClass(s[p]) THEN CapturesFrom(s, p + 1)
    ELSE LET e   == RunEnd(s, p)
             g   == Group1Start(s, p, e)
             sep == Separator(s, e)
         IN  <<[kind |-> CmdKind(sep), cmd_line |-> SubSeq(s, g, e)]>>
                 \o CapturesFrom(s, e + Len(sep) + 1)

parse_cmd_line(s) == CapturesFrom(s, 1)

(***************************************************************************)
(* str::split_whitespace, and the panic of Vec::split_off(1) on an empty   *)
(* vector.                                                                 *)
(***************************************************************************)
RECURSIVE WordEnd(_, _)
WordEnd(s, p) ==
    IF p <= Len(s) /\ ~IsSpace(s[p]) THEN WordEnd(s, p + 1) ELSE p - 1

RECURSIVE SplitFrom(_, _)
SplitFrom(s, p) ==
    IF p > Len(s) THEN <<>>
    ELSE IF IsSpace(s[p]) THEN SplitFrom(s, p + 1)
    ELSE <<SubSeq(s, p, WordEnd(s, p))>> \o SplitFrom(s, WordEnd(s, p) + 1)

split_whitespace(s) == SplitFrom(s, 1)

\* cmd.split_off(1) panics when the vector has no element.
SplitOffPanics(text) == Len(split_whitespace(text)) < 1

(***************************************************************************)
(* The operating system: what Command::output and Command::spawn return.   *)
(***************************************************************************)
ExitCodes == {0, 1, 2}

Signals == {9}

ErrorKinds == {"NotFound", "PermissionDenied", "Other"}

\* A captured chunk of output, labelled with the segment and the call site
\* that produced it.
Chunk(stream, seg, site) == [text |-> stream, seg |-> seg, site |-> site]

Captured(stream, seg, site) == {<<>>, <<Chunk(stream, seg, site)>>}

\* Result<Output, io::Error> of running segment seg to completion at site.
Outputs(seg, site) ==
    {[err |-> "", status |-> Some(c), signal |-> None, stdout |-> o, stderr |-> e] :
        c \in ExitCodes, o \in Captured("stdout", seg, site),
        e \in Captured("stderr", seg, site)}
    \cup
    {[err |-> "", status |-> None, signal |-> Some(sg), stdout |-> o, stderr |-> e] :
        sg \in Signals, o \in Captured("stdout", seg, site),
        e \in Captured("stderr", seg, site)}
    \cup
    {[err |-> k, status |-> None, signal |-> None, stdout |-> <<>>, stderr |-> <<>>] :
        k \in ErrorKinds}

\* Result<Child, io::Error> of a detached spawn: nothing is captured yet.
SpawnResults ==
    {[err |-> k, status |-> None, signal |-> None, stdout |-> <<>>, stderr |-> <<>>] :
        k \in {""} \cup ErrorKinds}

\* One call of Command::output (site "output", or "piped_output" when stdin
\* is the producer's stdout) or Command::spawn (site "spawn") for segment seg.
Call(seg, site, out) == [seg |-> seg, site |-> site, out |-> out]

\* A result the code drops without reading it: the log keeps only whether
\* the call started a process.
Dropped(out) ==
    [err |-> out.err, status |-> None, signal |-> None, stdout |-> <<>>, stderr |-> <<>>]

\* The calls that started an OS process: those that returned no io::Error.
Started == SelectSeq(calls, LAMBDA c : c.out.err = "")

(***************************************************************************)
(* handle_cmd_error and the Ok arms of the matches on `output`.            *)
(***************************************************************************)
NotFoundStatus == 127

PermissionDeniedStatus == 126

Diagnostic(msg) == <<[text |-> msg, seg |-> 0, site |-> "nrbt"]>>

\* The error arm `_ => return Err(error)`.
IsFatal(err) == err \notin {"NotFound", "PermissionDenied"}

\* handle_cmd_error with the diagnostic assigned to stderr, not appended.
handle_cmd_error_assigns(cr, err) ==
    IF err = "NotFound"
    THEN [cr EXCEPT !.status = Some(NotFoundStatus), !.signal = None,
                    !.stderr = Diagnostic("nrbt: command not found")]
    ELSE IF err = "PermissionDenied"
    THEN [cr EXCEPT !.status = Some(PermissionDeniedStatus), !.signal = None,
                    !.stderr = Diagnostic("nrbt: permission denied")]
    ELSE cr

handle_cmd_error(cr, err) ==
    IF err = "NotFound"
    THEN [cr EXCEPT !.status = Some(NotFoundStatus), !.signal = None,
                    !.stderr = @ \o Diagnostic("nrbt: command not found")]
    ELSE IF err = "PermissionDenied"
    THEN [cr EXCEPT !.status = Some(PermissionDeniedStatus), !.signal = None,
                    !.stderr = @ \o Diagnostic("nrbt: permission denied")]
    ELSE cr

\* FoldOutput as the first segment's arm has it: the buffers are assigned.
FoldOutputAssigns(cr, output) ==
    [status |-> output.status, signal |-> output.signal,
     stderr |-> output.stderr,
     stdout |-> output.stdout]

\* FoldOutput without the assignments to status and signal.
FoldOutputKeepsStatus(cr, output) ==
    [status |-> cr.status, signal |-> cr.signal,
     stderr |-> cr.stderr \o output.stderr,
     stdout |-> cr.stdout \o output.stdout]

\* Ok(mut output) => { status, signal assigned; stderr, stdout appended }
FoldOutput(cr, output) ==
    [status |-> output.status, signal |-> output.signal,
     stderr |-> cr.stderr \o output.stderr,
     stdout |-> cr.stdout \o output.stdout]

\* match output { Ok(..) => fold, Err(error) => handle_cmd_error(..)? }
MatchOutput(cr, output) ==
    IF output.err = "" THEN FoldOutput(cr, output)
    ELSE handle_cmd_error(cr, output.err)

\* Ok(output) => { all four fields assigned } of the first segment.
AssignOutput(cr, output) ==
    IF output.err = ""
    THEN [status |-> output.status, signal |-> output.signal,
          stderr |-> output.stderr, stdout |-> output.stdout]
    ELSE handle_cmd_error(cr, output.err)

(***************************************************************************)
(* State machine.                                                          *)
(***************************************************************************)
EmptyReturn == [status |-> None, signal |-> None, stderr |-> <<>>, stdout |-> <<>>]

Init ==
    /\ cmd_line \in Expressions
    /\ cmds = <<>>
    /\ i = 0
    /\ cmd_return = EmptyReturn
    /\ child = None
    /\ run = "Continue"
    /\ pc = "main"
    /\ error = ""
    /\ calls = <<>>
    /\ written = None
    /\ printed = None
    /\ exit_status = None

\* main, line 71: parse_cmd_line(&cmd_line), then run_all_cmd's set-up.
ParseCmdLine ==
    /\ pc = "main"
    /\ UNCHANGED main_vars
    /\ cmds' = parse_cmd_line(cmd_line)
    /\ i' = 1
    /\ pc' = "loop"
    /\ UNCHANGED <<cmd_line, cmd_return, child, run, error, calls>>

\* A panic: the thread unwinds, nothing is returned.
Panic(msg) ==
    /\ pc' = "panic"
    /\ error' = msg
    /\ UNCHANGED <<cmd_line, cmds, i, cmd_return, child, run>>

\* `?` on an Err: run_all_cmd returns the error, which main unwraps.
Fatal(err) ==
    /\ pc' = "fatal"
    /\ error' = err
    /\ UNCHANGED <<cmd_line, cmds, i, cmd_return, run>>

\* Continue with the loop stepping over a segment.
ContinueSkips ==
    /\ i' = i + 2
    /\ UNCHANGED <<cmd_line, cmds, pc, error>>

\* The loop takes its next iteration.
Continue ==
    /\ i' = i + 1
    /\ UNCHANGED <<cmd_line, cmds, pc, error>>

\* match output { .. Err(error) => handle_cmd_error(cmd_return, error)? }
\* returns early exactly when handle_cmd_error returns Err.
Propagates(output) == output.err # "" /\ IsFatal(output.err)

InLoop == pc = "loop" /\ i <= Len(cmds)

(***************************************************************************)
(* run_all_cmd, the first segment (lines 209-230).                         *)
(***************************************************************************)
FirstCmdPanic ==
    /\ InLoop /\ i = 1
    /\ UNCHANGED main_vars
    /\ SplitOffPanics(cmds[i].cmd_line)
    /\ Panic("split_off")
    /\ UNCHANGED calls

FirstCmdSpawn ==
    /\ InLoop /\ i = 1
    /\ UNCHANGED main_vars
    /\ ~SplitOffPanics(cmds[i].cmd_line)
    /\ cmds[i].kind = "Pipe"
    /\ \E spawned \in SpawnResults :
        /\ calls' = Append(calls, Call(i, "spawn", spawned))
        /\ IF spawned.err = ""
           THEN /\ child' = Some(i)
                /\ Continue
                /\ UNCHANGED <<cmd_return, run>>
           ELSE /\ Fatal(spawned.err)
                /\ UNCHANGED child

FirstCmdOutput ==
    /\ InLoop /\ i = 1
    /\ UNCHANGED main_vars
    /\ ~SplitOffPanics(cmds[i].cmd_line)
    /\ cmds[i].kind # "Pipe"
    /\ \E output \in Outputs(i, "output") :
        /\ calls' = Append(calls, Call(i, "output", output))
        /\ IF Propagates(output)
           THEN /\ Fatal(output.err)
                /\ UNCHANGED child
           ELSE /\ cmd_return' = AssignOutput(cmd_return, output)
                /\ Continue
                /\ UNCHANGED <<child, run>>

(***************************************************************************)
(* run_cmd (lines 113-191), called for every later segment; each action    *)
(* below is one path through it, from its first line to its return and     *)
(* the loop's handling of what it returned (lines 204-208).                *)
(***************************************************************************)
InRunCmd == InLoop /\ i > 1

\* Line 123: cmd.split_off(1).
RunCmdPanic ==
    /\ InRunCmd
    /\ UNCHANGED main_vars
    /\ SplitOffPanics(cmds[i].cmd_line)
    /\ Panic("split_off")
    /\ UNCHANGED calls

\* Line 124 runs the segment to completion before any operator is looked at.
\* Lines 125-141: the segment feeds a pipe, so it is spawned detached; the
\* result of line 124 is dropped.
RunCmdSpawn ==
    /\ InRunCmd
    /\ UNCHANGED main_vars
    /\ ~SplitOffPanics(cmds[i].cmd_line)
    /\ cmds[i].kind = "Pipe"
    /\ \E output \in Outputs(i, "output"), spawned \in SpawnResults :
        /\ calls' = calls \o <<Call(i, "output", Dropped(output)),
                                   Call(i, "spawn", spawned)>>
        /\ IF spawned.err = ""
           THEN /\ child' = Some(i)
                /\ run' = "Continue"
                /\ Continue
                /\ UNCHANGED cmd_return
           ELSE \* child was moved into run_cmd and is dropped there
                /\ pc' = "fatal"
                /\ error' = spawned.err
                /\ child' = None
                /\ UNCHANGED <<cmd_line, cmds, i, cmd_return, run>>

\* Lines 144-154.
RunCmdSemiCol ==
    /\ InRunCmd
    /\ UNCHANGED main_vars
    /\ ~SplitOffPanics(cmds[i].cmd_line)
    /\ cmds[i].kind # "Pipe"
    /\ cmds[i - 1].kind = "SemiCol"
    /\ \E output \in Outputs(i, "output") :
        /\ calls' = Append(calls, Call(i, "output", output))
        /\ IF Propagates(output)
           THEN /\ Fatal(output.err)
                /\ child' = None
           ELSE /\ cmd_return' = MatchOutput(cmd_return, output)
                /\ run' = "Continue"
                /\ Continue
                /\ UNCHANGED child

\* if let Some(1) = &cmd_return.status
ShortCircuits(cr) == cr.status = Some(1)

\* AndArm with the result of line 124 folded before the status is tested.
AndArmFoldsFirst(cr, output) ==
    [run |-> IF ShortCircuits(cr) THEN "Abort" ELSE "Continue",
     cmd_return |-> MatchOutput(cr, output)]

\* Lines 155-169: the Run value returned and the CmdReturn left behind.
AndArm(cr, output) ==
    IF ShortCircuits(cr)
    THEN [run |-> "Abort", cmd_return |-> cr]
    ELSE [run |-> "Continue", cmd_return |-> MatchOutput(cr, output)]

\* Lines 155-169, and the break of line 207 followed by line 234.
RunCmdAnd ==
    /\ InRunCmd
    /\ UNCHANGED main_vars
    /\ ~SplitOffPanics(cmds[i].cmd_line)
    /\ cmds[i].kind # "Pipe"
    /\ cmds[i - 1].kind = "And"
    /\ \E output \in Outputs(i, "output") :
        LET arm == AndArm(cmd_return, output)
        IN  /\ calls' = Append(calls, Call(i, "output",
                                 IF arm.run = "Abort" THEN Dropped(output) ELSE output))
            /\ IF arm.run = "Abort"
               THEN /\ run' = "Abort"
                    /\ cmd_return' = arm.cmd_return
                    /\ child' = None
                    /\ pc' = "returned"
                    /\ UNCHANGED <<cmd_line, cmds, i, error>>
               ELSE IF Propagates(output)
               THEN /\ Fatal(output.err)
                    /\ child' = None
               ELSE /\ cmd_return' = arm.cmd_return
                    /\ run' = "Continue"
                    /\ Continue
                    /\ UNCHANGED child

\* RunCmdPipe without `child = None` (line 175).
RunCmdPipeKeepsChild ==
    /\ InRunCmd
    /\ UNCHANGED main_vars
    /\ ~SplitOffPanics(cmds[i].cmd_line)
    /\ cmds[i].kind # "Pipe"
    /\ cmds[i - 1].kind = "Pipe"
    /\ \E first \in Outputs(i, "output") :
        IF child = None
        THEN /\ Panic("unwrap")
             /\ calls' = Append(calls, Call(i, "output", Dropped(first)))
        ELSE \E output \in Outputs(i, "piped_output") :
            /\ calls' = calls \o <<Call(i, "output", Dropped(first)),
                                   Call(i, "piped_output", output)>>
            /\ child' = child
            /\ IF Propagates(output)
               THEN Fatal(output.err)
               ELSE /\ cmd_return' = MatchOutput(cmd_return, output)
                    /\ run' = "Continue"
                    /\ Continue

\* Lines 170-185: the consumer of a pipe is run a second time, with the
\* producer's stdout as its stdin, and that second result is folded.
RunCmdPipe ==
    /\ InRunCmd
    /\ UNCHANGED main_vars
    /\ ~SplitOffPanics(cmds[i].cmd_line)
    /\ cmds[i].kind # "Pipe"
    /\ cmds[i - 1].kind = "Pipe"
    /\ \E first \in Outputs(i, "output") :
        IF child = None
        THEN /\ Panic("unwrap")
             /\ calls' = Append(calls, Call(i, "output", Dropped(first)))
        ELSE \E output \in Outputs(i, "piped_output") :
            /\ calls' = calls \o <<Call(i, "output", Dropped(first)),
                                   Call(i, "piped_output", output)>>
            /\ child' = None
            /\ IF Propagates(output)
               THEN Fatal(output.err)
               ELSE /\ cmd_return' = MatchOutput(cmd_return, output)
                    /\ run' = "Continue"
                    /\ Continue

\* Line 186: the previous segment's kind is Single.
RunCmdNotSupported ==
    /\ InRunCmd
    /\ UNCHANGED main_vars
    /\ ~SplitOffPanics(cmds[i].cmd_line)
    /\ cmds[i].kind # "Pipe"
    /\ cmds[i - 1].kind = "Single"
    /\ \E output \in Outputs(i, "output") :
        /\ calls' = Append(calls, Call(i, "output", Dropped(output)))
        /\ Panic("Not supported!")

\* The for loop is exhausted: line 234, Ok(cmd_return).
ReturnOk ==
    /\ pc = "loop"
    /\ UNCHANGED main_vars
    /\ i > Len(cmds)
    /\ pc' = "returned"
    /\ UNCHANGED <<cmd_line, cmds, i, cmd_return, child, run, error, calls>>

(***************************************************************************)
(* main after run_all_cmd returned Ok (lines 71-84).  When run_all_cmd     *)
(* returned Err, the unwrap of line 71 panics and nothing below is run.    *)
(***************************************************************************)
\* make_report (lines 275-303), without the duration line.
make_report(expression, cr) ==
    [expression |-> expression,
     outcome |-> IF cr.status # None THEN <<"Exit code", cr.status[1]>>
                 ELSE IF cr.signal # None THEN <<"Terminated by signal", cr.signal[1]>>
                 ELSE <<>>,
     stdout |-> cr.stdout,
     stderr |-> cr.stderr]

\* Line 80: run.status != Some(0) || !run.stderr.is_empty()
ShowsReport(cr) == cr.status # Some(0) \/ cr.stderr # <<>>

\* Lines 73-84.  output_file is the -o option; io is what File::create and
\* write_all return, "" for Ok.
MainReport ==
    /\ pc = "returned"
    /\ \E output_file \in {None, Some("PATH")}, io \in {"", "Other"} :
        LET report == make_report(cmd_line, cmd_return)
        IN  IF output_file # None /\ io # ""
            THEN \* `?` returns the error from main before line 80
                 /\ written' = None
                 /\ printed' = None
                 /\ exit_status' = Some(1)
                 /\ error' = io
            ELSE /\ written' = IF output_file # None THEN Some(report) ELSE None
                 /\ printed' = IF ShowsReport(cmd_return) THEN Some(report) ELSE None
                 /\ exit_status' = Some(0)
                 /\ error' = error
    /\ pc' = "exit"
    /\ UNCHANGED <<cmd_line, cmds, i, cmd_return, child, run, calls>>

Next ==
    \/ ParseCmdLine
    \/ FirstCmdPanic
    \/ FirstCmdSpawn
    \/ FirstCmdOutput
    \/ RunCmdPanic
    \/ RunCmdSpawn
    \/ RunCmdSemiCol
    \/ RunCmdAnd
    \/ RunCmdPipe
    \/ RunCmdNotSupported
    \/ ReturnOk
    \/ MainReport

Spec == Init /\ [][Next]_vars

\* The same program on the token-built expressions.
InitTokens ==
    /\ cmd_line \in TokenExpressions
    /\ cmds = <<>>
    /\ i = 0
    /\ cmd_return = EmptyReturn
    /\ child = None
    /\ run = "Continue"
    /\ pc = "main"
    /\ error = ""
    /\ calls = <<>>
    /\ written = None
    /\ printed = None
    /\ exit_status = None

SpecTokens == InitTokens /\ [][Next]_vars

(***************************************************************************)
(* Properties.  Segment indices in the comments are the source's (0-based);*)
(* the formulas use the model's 1-based i.                                 *)
(***************************************************************************)
\* run_cmd is processing a segment that names a program, is not itself
\* linked to its successor by a pipe, and follows a segment of kind `kind`.
Processing(kind) ==
    /\ InRunCmd
    /\ ~SplitOffPanics(cmds[i].cmd_line)
    /\ cmds[i].kind # "Pipe"
    /\ cmds[i - 1].kind = kind

\* "Failure" is a nonzero exit code.
Failed(cr) == cr.status # None /\ cr.status # Some(0)

\* The walk stopped in Abort and handed back the Aggregate as it was.
Aborts ==
    /\ run' = "Abort"
    /\ pc' = "returned"
    /\ cmd_return' = cmd_return

\* C1: whenever the segment after an && (its own operator not |) is processed
\* while the Aggregate's exit code is nonzero, the Sequencer aborts: the walk
\* stops and nothing is folded into the Aggregate.
C1_AbortOnAnyFailure ==
    [][(Processing("And") /\ Failed(cmd_return)) => Aborts]_vars

\* C2: once the Sequencer has aborted at segment i, no OS process has been
\* started for segment i.
C2_AbortedSegmentNeverStarted ==
    (pc = "returned" /\ run = "Abort")
        => \A k \in 1..Len(Started) : Started[k].seg # i

\* C3: the step that aborts leaves the Aggregate as it was: the exit_code,
\* signal, stdout and stderr the run returns are those held just before it.
C3_AbortKeepsAggregate ==
    [][(pc = "loop" /\ run' = "Abort") => (pc' = "returned" /\ cmd_return' = cmd_return)]_vars

\* An aborted run whose Aggregate holds output of the segments before the &&.
C3_Witness ==
    /\ pc = "returned"
    /\ run = "Abort"
    /\ cmd_return.stdout # <<>>
    /\ cmd_return.stderr # <<>>
    /\ Len(Started) > 1

\* What a segment's own outcome leaves in the Aggregate cr.
OwnOutcome(cr, output) ==
    IF output.err = ""
    THEN [status |-> output.status, signal |-> output.signal,
          stderr |-> cr.stderr \o output.stderr,
          stdout |-> cr.stdout \o output.stdout]
    ELSE [status |-> Some(IF output.err = "NotFound" THEN 127 ELSE 126),
          signal |-> None,
          stderr |-> cr.stderr \o Diagnostic(IF output.err = "NotFound"
                                             THEN "nrbt: command not found"
                                             ELSE "nrbt: permission denied"),
          stdout |-> cr.stdout]

\* C4: whenever the segment after a ; (its own operator not |) is processed,
\* whatever the Aggregate holds, the segment is run once and its own outcome
\* overwrites exit_code and signal and is appended to stdout and stderr
\* (or the run ends in a fatal spawn error).
C4_SequenceAlwaysFolds ==
    [][(InRunCmd /\ cmds[i].kind # "Pipe" /\ cmds[i - 1].kind = "SemiCol")
        => \/ pc' = "fatal"
           \/ \E output \in Outputs(i, "output") :
                /\ ~Propagates(output)
                /\ calls' = Append(calls, Call(i, "output", output))
                /\ cmd_return' = OwnOutcome(cmd_return, output)
                /\ pc' = "loop"]_vars

\* C5: a run never ends in a fatal error because of NotFound or
\* PermissionDenied, whichever segment and whichever invocation mode.
C5_MissingProgramNeverFatal ==
    pc = "fatal" => error \notin {"NotFound", "PermissionDenied"}

\* C6: after a completed run that started at least one process, exactly one
\* of exit_code and signal is set.
C6_ExactlyOneOfCodeAndSignal ==
    (pc = "returned" /\ Started # <<>>)
        => ((cmd_return.status = None) # (cmd_return.signal = None))

\* The call whose result is folded for segment seg: the one with the pipe on
\* stdin when the segment consumes a pipe, else the plain one.
FoldSite(seg) ==
    IF seg > 1 /\ cmds[seg - 1].kind = "Pipe" THEN "piped_output" ELSE "output"

\* The calls of the segments that were folded: a segment that is not linked
\* to its successor by a pipe, and not the one the walk aborted at.
FoldedCall(c) ==
    /\ cmds[c.seg].kind # "Pipe"
    /\ c.site = FoldSite(c.seg)
    /\ ~(run = "Abort" /\ c.seg = i)

\* What a call contributes to stderr: what it captured, or the diagnostic.
StderrOf(c) ==
    IF c.out.err = "NotFound" THEN Diagnostic("nrbt: command not found")
    ELSE IF c.out.err = "PermissionDenied" THEN Diagnostic("nrbt: permission denied")
    ELSE c.out.stderr

RECURSIVE ConcatStdout(_)
ConcatStdout(log) ==
    IF log = <<>> THEN <<>>
    ELSE (IF FoldedCall(Head(log)) THEN Head(log).out.stdout ELSE <<>>)
             \o ConcatStdout(Tail(log))

RECURSIVE ConcatStderr(_)
ConcatStderr(log) ==
    IF log = <<>> THEN <<>>
    ELSE (IF FoldedCall(Head(log)) THEN StderrOf(Head(log)) ELSE <<>>)
             \o ConcatStderr(Tail(log))

\* A chunk that a process of an intermediate stage of a pipe chain wrote, or
\* that the consumer wrote when it was run without the pipe.
FromIntermediate(chunk) ==
    /\ chunk.site # "nrbt"
    /\ \/ cmds[chunk.seg].kind = "Pipe"
       \/ chunk.site # FoldSite(chunk.seg)

\* C7: the final stdout and stderr are the concatenation, in execution order,
\* of the output of exactly the folded segments; nothing an intermediate
\* stage of a pipe chain wrote is in them.
C7_OutputIsConcatenationOfFolded ==
    pc = "returned"
        => /\ cmd_return.stdout = ConcatStdout(calls)
           /\ cmd_return.stderr = ConcatStderr(calls)
           /\ \A k \in 1..Len(cmd_return.stdout) : ~FromIntermediate(cmd_return.stdout[k])
           /\ \A k \in 1..Len(cmd_return.stderr) : ~FromIntermediate(cmd_return.stderr[k])

\* A completed run of a segment followed by a pipe chain, both of which
\* left output.
C7_Witness ==
    /\ pc = "returned"
    /\ Len(cmd_return.stdout) = 2
    /\ cmd_return.stdout[1].site = "output"
    /\ cmd_return.stdout[2].site = "piped_output"
    /\ Len(cmd_return.stderr) = 2
    /\ \E k \in 1..Len(cmds) : cmds[k].kind = "Pipe"

\* The expression starts with the first character of a program name.
StartsWithProgram(s) == Len(s) > 0 /\ InClass(s[1]) /\ ~IsSpace(s[1])

\* The expression has none of the characters of the operator tokens.
NoOperator(s) == \A p \in 1..Len(s) : s[p] \notin {"&", ";", "|"}

\* C8: for an expression without operators that names a program, the
\* Segmenter yields one segment, which is the expression, the run does not
\* panic, and the final Aggregate is what the one program returned.
C8_NoOperatorIsIdentity ==
    (pc # "main" /\ NoOperator(cmd_line) /\ StartsWithProgram(cmd_line))
        => /\ Len(cmds) = 1
           /\ split_whitespace(cmds[1].cmd_line) = split_whitespace(cmd_line)
           /\ pc # "panic"
           /\ pc = "returned"
                => /\ Len(calls) = 1
                   /\ cmd_return = OwnOutcome(EmptyReturn, calls[1].out)

\* An & that is not one half of an && token.
StrayAmpersand(s) ==
    \E p \in 1..Len(s) :
        /\ s[p] = "&"
        /\ LET l == p > 1 /\ s[p - 1] = "&"
               r == p < Len(s) /\ s[p + 1] = "&"
           IN  l = r

\* C9: for an expression of the supported grammar, kind Single is found on
\* the last segment only, and run_cmd never panics with "Not supported!".
C9_SingleOnlyOnLastSegment ==
    ~StrayAmpersand(cmd_line)
        => /\ \A k \in 1..Len(cmds) : cmds[k].kind = "Single" => k = Len(cmds)
           /\ error # "Not supported!"

\* C10: every segment has a word in it, so taking the program name of a
\* segment never fails.
C10_NoBlankSegment ==
    StartsWithProgram(cmd_line)
        => /\ \A k \in 1..Len(cmds) : split_whitespace(cmds[k].cmd_line) # <<>>
           /\ error # "split_off"

\* C11: processes are started in left-to-right segment order: no process of
\* an earlier segment starts after one of a later segment, every call for a
\* segment comes after a call for each earlier segment, and a process of a
\* pipe's consumer starts only after the producer was spawned.
C11_StartedLeftToRight ==
    LET started == Started
        n == Len(started)
    IN  /\ \A k \in 1..n : \A l \in (k + 1)..n :
                started[k].seg <= started[l].seg
        /\ \A k \in 1..Len(calls) : \A seg \in 1..(calls[k].seg - 1) :
                \E l \in 1..(k - 1) : calls[l].seg = seg
        /\ \A k \in 1..n :
                (started[k].seg > 1 /\ cmds[started[k].seg - 1].kind = "Pipe")
                    => \E l \in 1..(k - 1) :
                            /\ started[l].seg = started[k].seg - 1
                            /\ started[l].site = "spawn"

\* A segment, then a producer and its consumer, all started.
C11_Witness ==
    /\ \E k \in 1..Len(Started) : Started[k].seg = 1
    /\ \E k \in 1..Len(Started) : Started[k].seg = 2 /\ Started[k].site = "spawn"
    /\ \E k \in 1..Len(Started) : Started[k].seg = 3 /\ Started[k].site = "piped_output"

\* C13: when the walk has ended, no Pending Pipe Handle is outstanding.
C13_NoHandleLeftPending ==
    pc = "returned" => child = None

\* C17: when the segment after an && is itself linked to its successor by a
\* pipe and the Aggregate's exit code is 1, the Sequencer aborts: no process
\* is started and the Aggregate keeps exit code 1.
C17_ShortCircuitBeforePipe ==
    [][(/\ InRunCmd
        /\ ~SplitOffPanics(cmds[i].cmd_line)
        /\ cmds[i].kind = "Pipe"
        /\ cmds[i - 1].kind = "And"
        /\ cmd_return.status = Some(1))
        => (calls' = calls /\ cmd_return' = cmd_return /\ pc' = "returned")]_vars

\* C18: at most one OS process is started for each segment.
C18_OneProcessPerSegment ==
    \A k \in 1..Len(Started) : \A l \in 1..Len(Started) :
        Started[k].seg = Started[l].seg => k = l

\* C19: while the walk is at segment i, a Pending Pipe Handle is held exactly
\* when the segment before i is linked to it by a pipe; run_cmd never finds
\* the handle absent when it takes it.
C19_HandleOnlyAfterPipe ==
    /\ pc = "loop" => (child # None <=> (i > 1 /\ cmds[i - 1].kind = "Pipe"))
    /\ pc = "loop" /\ child # None => child = Some(i - 1)
    /\ error # "unwrap"

\* The walk is past a whole pipe chain, and was inside it before.
C19_Witness ==
    /\ pc = "loop"
    /\ child = None
    /\ i > 2
    /\ cmds[i - 1].kind # "Pipe"
    /\ cmds[i - 2].kind = "Pipe"

IsPrefix(a, b) == Len(a) <= Len(b) /\ SubSeq(b, 1, Len(a)) = a

\* C20: every step leaves the former contents of stdout and of stderr at the
\* head of the new contents.
C20_BuffersAppendOnly ==
    [][/\ IsPrefix(cmd_return.stdout, cmd_return'.stdout)
       /\ IsPrefix(cmd_return.stderr, cmd_return'.stderr)]_vars

\* Both buffers grew over two folds, one of them a recovered spawn error.
C20_Witness ==
    /\ Len(cmd_return.stdout) >= 1
    /\ Len(cmd_return.stderr) >= 2
    /\ \E k \in 1..Len(cmd_return.stderr) : cmd_return.stderr[k].site = "nrbt"
    /\ \E k \in 1..Len(cmd_return.stderr) : cmd_return.stderr[k].site # "nrbt"

\* C12: whenever the status test of the && arm is evaluated for segment i,
\* the last call made is the folded call of segment i - 1, and the exit_code
\* and signal the test reads are that call's outcome.
C12_AndReadsPredecessor ==
    Processing("And")
        => LET last == calls[Len(calls)]
           IN  /\ last.seg = i - 1
               /\ last.site = FoldSite(i - 1)
               /\ cmd_return.status = OwnOutcome(EmptyReturn, last.out).status
               /\ cmd_return.signal = OwnOutcome(EmptyReturn, last.out).signal

\* The && test is about to read the outcome of the second segment, which
\* differs from the first segment's.
C12_Witness ==
    /\ Processing("And")
    /\ i = 3
    /\ calls[1].seg = 1
    /\ calls[1].out.err = ""
    /\ calls[1].out.status # cmd_return.status

\* C14: a spawn error other than NotFound and PermissionDenied is fatal: the
\* run stops at that segment (run_all_cmd does not return Ok), no call is
\* made for a later segment, and no Report is printed or written.
C14_OtherSpawnErrorIsFatal ==
    \A k \in 1..Len(calls) :
        calls[k].out.err = "Other"
            => /\ \A l \in k..Len(calls) : calls[l].seg = calls[k].seg
               /\ pc \in {"fatal", "panic"}
               /\ printed = None
               /\ written = None

\* C15: when main has returned Ok after a run whose final exit_code is
\* Some(n), the exit status of the tool is n.
C15_ExitStatusMirrorsExitCode ==
    (pc = "exit" /\ error = "" /\ cmd_return.status # None)
        => exit_status = cmd_return.status

\* C16: once main is over after a completed run, the Report has been printed
\* if the final exit_code is nonzero or stderr is not empty, and has not been
\* printed if the exit_code is 0 and stderr is empty.
C16_ReportEchoedWhenInteresting ==
    pc = "exit"
        => /\ (Failed(cmd_return) \/ cmd_return.stderr # <<>>)
                => printed = Some(make_report(cmd_line, cmd_return))
           /\ (cmd_return.status = Some(0) /\ cmd_return.stderr = <<>>)
                => printed = None
====
